---- MODULE Spec2Model ----
(***************************************************************************)
(* StageEnum (src/src/common_widgets/stage_enum.py): an Enum whose Meta    *)
(* block declares an ordering and transition flows.  The metaclass         *)
(* resolves the declaration once (MetaOptions); the members then answer    *)
(* read-only queries against the resolved ordering and flows.              *)
(***************************************************************************)
EXTENDS Integers, Sequences, FiniteSets, TLC

VARIABLES decl, status, def_exc, meta, call

vars == <<decl, status, def_exc, meta, call>>

(***************************************************************************)
(* Bounds of the declarations explored.                                    *)
(***************************************************************************)
MaxOrderingLen == 3
MaxFlowEntries == 2
MaxFlowLen == 1

(***************************************************************************)
(* Python values.  A raw value is a str or an int; a member object of the  *)
(* type is identified by its name.                                         *)
(***************************************************************************)
PyStr(s) == [kind |-> "str", s |-> s, n |-> 0]
PyInt(n) == [kind |-> "int", s |-> "", n |-> n]
PyMember(name) == [kind |-> "member", s |-> name, n |-> 0]

\* The outcome of a call: a returned value, or the exception raised.
Return(v) == [exc |-> "", val |-> v]
Raise(e) == [exc |-> e, val |-> <<>>]

Min(S) == CHOOSE x \in S : \A y \in S : x <= y

SeqsUpTo(S, n) == UNION {[1..k -> S] : k \in 0..n}

(***************************************************************************)
(* str.upper() on the identifiers used in the declarations and queries.    *)
(***************************************************************************)
Upper(s) ==
    CASE s \in {"pending", "Pending", "PENDING"} -> "PENDING"
      [] s \in {"running", "RUNNING"} -> "RUNNING"
      [] s \in {"done", "Done", "DONE"} -> "DONE"
      [] s \in {"closed", "CLOSED"} -> "CLOSED"
      [] s \in {"expired"} -> "EXPIRED"
      [] s \in {"missing"} -> "MISSING"
      [] s \in {"low", "LOW"} -> "LOW"
      [] s \in {"mid", "MID"} -> "MID"
      [] s \in {"high", "HIGH"} -> "HIGH"
      [] s \in {"ten", "TEN"} -> "TEN"

(***************************************************************************)
(* The enum classes declared: members in declaration order, each a name    *)
(* and a raw value.  Status is the class of the test suite; Level has      *)
(* values that spell other members' names, a lower-case name and an int    *)
(* value.                                                                  *)
(***************************************************************************)
Status ==
    << [name |-> "PENDING", value |-> PyStr("pending")],
       [name |-> "RUNNING", value |-> PyStr("running")],
       [name |-> "DONE", value |-> PyStr("done")],
       [name |-> "CLOSED", value |-> PyStr("expired")] >>

Level ==
    << [name |-> "LOW", value |-> PyStr("high")],
       [name |-> "MID", value |-> PyStr("mid")],
       [name |-> "HIGH", value |-> PyStr("low")],
       [name |-> "ten", value |-> PyInt(10)] >>

Classes == {Status, Level}

Names(cls) == {cls[i].name : i \in DOMAIN cls}

\* cls[name]: lookup in the member map by exact name.
EnumGetItem(cls, name) ==
    IF name \in Names(cls) THEN Return(name) ELSE Raise("KeyError")

\* cls(value): lookup of a member by raw value.
EnumCall(cls, value) ==
    IF \E i \in DOMAIN cls : cls[i].value = value
    THEN Return(cls[CHOOSE i \in DOMAIN cls : cls[i].value = value].name)
    ELSE Raise("ValueError")

(***************************************************************************)
(* MetaOptions: resolution of the declaration.                             *)
(***************************************************************************)
_get_enum_member(cls, value) ==
    IF value.kind # "str"
    THEN Raise("AttributeError")
    ELSE LET by_name == EnumGetItem(cls, Upper(value.s))
         IN IF by_name.exc = "KeyError" THEN EnumCall(cls, value) ELSE by_name

\* Variant: an identifier that fails is skipped and the loop goes on.
resolve_list_skipping(cls, raws) ==
    LET rs == [i \in DOMAIN raws |-> _get_enum_member(cls, raws[i])]
        good == {i \in DOMAIN raws : rs[i].exc = ""}
        nth(k) == CHOOSE i \in good : Cardinality({j \in good : j <= i}) = k
    IN Return([k \in 1..Cardinality(good) |-> rs[nth(k)].val])

\* The loop of set_ordering and the inner loop of set_flows: members in
\* input order, or the exception of the first identifier that fails.
resolve_list(cls, raws) ==
    LET rs == [i \in DOMAIN raws |-> _get_enum_member(cls, raws[i])]
        bad == {i \in DOMAIN raws : rs[i].exc # ""}
    IN IF bad = {}
       THEN Return([i \in DOMAIN raws |-> rs[i].val])
       ELSE Raise(rs[Min(bad)].exc)

set_ordering(cls, m) ==
    resolve_list(cls, IF m.has_ordering THEN m.ordering ELSE <<>>)

\* flows[key] = flow_list: a later entry replaces an earlier one of the same member.
DictSet(f, k, v) == [x \in DOMAIN f \cup {k} |-> IF x = k THEN v ELSE f[x]]

RECURSIVE set_flows_from(_, _, _, _)
set_flows_from(cls, entries, i, flows) ==
    IF i > Len(entries)
    THEN Return(flows)
    ELSE LET flow_list == resolve_list(cls, entries[i].value)
         IN IF flow_list.exc # ""
            THEN flow_list
            ELSE LET key == _get_enum_member(cls, entries[i].key)
                 IN IF key.exc # ""
                    THEN key
                    ELSE set_flows_from(cls, entries, i + 1,
                                        DictSet(flows, key.val, flow_list.val))

set_flows(cls, m) ==
    set_flows_from(cls, IF m.has_flows THEN m.flows ELSE <<>>, 1, <<>>)

MetaOptions(cls, m) ==
    LET ordering == set_ordering(cls, m)
    IN IF ordering.exc # ""
       THEN ordering
       ELSE LET flows == set_flows(cls, m)
            IN IF flows.exc # ""
               THEN flows
               ELSE Return([none |-> FALSE, ordering |-> ordering.val,
                            flows |-> flows.val])

\* new_class.meta of a class without a Meta block, and the value of the
\* meta variable while the class is not defined.
NoneMeta == [none |-> TRUE, ordering |-> <<>>, flows |-> <<>>]

(***************************************************************************)
(* Python list and dict primitives used by the member methods.             *)
(***************************************************************************)
Range(seq) == {seq[i] : i \in DOMAIN seq}

\* Variant: the sentinel -1 of str.find for an absent element.
ListFind(seq, x) ==
    IF x \in Range(seq)
    THEN Return(Min({i \in DOMAIN seq : seq[i] = x}) - 1)
    ELSE Return(0 - 1)

\* list.index(x): zero-based position of the first occurrence.
ListIndex(seq, x) ==
    IF x \in Range(seq)
    THEN Return(Min({i \in DOMAIN seq : seq[i] = x}) - 1)
    ELSE Raise("ValueError")

\* A slice bound of a list of length n: counted from the end when negative,
\* clamped to 0..n.
SliceBound(i, n) ==
    IF i < 0
    THEN (IF i + n < 0 THEN 0 ELSE i + n)
    ELSE (IF i > n THEN n ELSE i)

\* seq[start:stop] with zero-based bounds.
PySlice(seq, start, stop) ==
    LET lo == SliceBound(start, Len(seq))
        hi == SliceBound(stop, Len(seq))
    IN IF lo >= hi THEN <<>> ELSE SubSeq(seq, lo + 1, hi)

\* seq[i] with a zero-based index.
PyGetItem(seq, i) ==
    IF i >= Len(seq) \/ i < 0 - Len(seq)
    THEN Raise("IndexError")
    ELSE Return(seq[(IF i < 0 THEN i + Len(seq) ELSE i) + 1])

\* flows.get(key) or []
FlowsGet(flows, key) == IF key \in DOMAIN flows THEN flows[key] ELSE <<>>

(***************************************************************************)
(* StageEnum: the member methods.  cls is the class, m its meta attribute, *)
(* self a member (by name), other the argument as passed.                  *)
(***************************************************************************)
_member__(cls, value) ==
    IF value.kind = "member" THEN Return(value.s) ELSE EnumCall(cls, value)

follows(cls, m, self, other) ==
    LET o == _member__(cls, other)
    IN IF o.exc # "" THEN o
       ELSE IF m.none THEN Raise("AttributeError")
       ELSE Return(self \in Range(FlowsGet(m.flows, o.val)))

\* Variant: precedes reading the entry of other, as follows does.
precedes_entry_of_other(cls, m, self, other) ==
    LET o == _member__(cls, other)
    IN IF o.exc # "" THEN o
       ELSE IF m.none THEN Raise("AttributeError")
       ELSE Return(self \in Range(FlowsGet(m.flows, o.val)))

precedes(cls, m, self, other) ==
    LET o == _member__(cls, other)
    IN IF o.exc # "" THEN o
       ELSE IF m.none THEN Raise("AttributeError")
       ELSE Return(o.val \in Range(FlowsGet(m.flows, self)))

\* Variant: a one-based position.
index_one_based(m, self) ==
    IF m.none THEN Raise("AttributeError")
    ELSE LET i == ListIndex(m.ordering, self)
         IN IF i.exc # "" THEN i ELSE Return(i.val + 1)

index_(m, self) ==
    IF m.none THEN Raise("AttributeError") ELSE ListIndex(m.ordering, self)

is_comparable(cls, m, member) ==
    LET r == _member__(cls, member)
    IN IF r.exc = "ValueError" THEN Return(FALSE)
       ELSE IF r.exc # "" THEN r
       ELSE IF m.none THEN Raise("AttributeError")
       ELSE Return(r.val \in Range(m.ordering))

\* The operands of a comparison or subtraction, in evaluation order:
\* other is coerced, then self.index_ and other.index_ are read.
operand_indexes(cls, m, self, other) ==
    LET o == _member__(cls, other)
    IN IF o.exc # "" THEN o
       ELSE LET a == index_(m, self)
            IN IF a.exc # "" THEN a
               ELSE LET b == index_(m, o.val)
                    IN IF b.exc # "" THEN b
                       ELSE Return([self |-> a.val, other |-> b.val])

__le__(cls, m, self, other) ==
    LET ix == operand_indexes(cls, m, self, other)
    IN IF ix.exc # "" THEN ix ELSE Return(ix.val.self <= ix.val.other)

\* Variant: < answering as <=.
__lt__as_le(cls, m, self, other) ==
    LET ix == operand_indexes(cls, m, self, other)
    IN IF ix.exc # "" THEN ix ELSE Return(ix.val.self <= ix.val.other)

__lt__(cls, m, self, other) ==
    LET ix == operand_indexes(cls, m, self, other)
    IN IF ix.exc # "" THEN ix ELSE Return(ix.val.self < ix.val.other)

__ge__(cls, m, self, other) ==
    LET ix == operand_indexes(cls, m, self, other)
    IN IF ix.exc # "" THEN ix ELSE Return(ix.val.self >= ix.val.other)

__gt__(cls, m, self, other) ==
    LET ix == operand_indexes(cls, m, self, other)
    IN IF ix.exc # "" THEN ix ELSE Return(ix.val.self > ix.val.other)

\* Variant: the negative-index slice starting one position early.
__sub__from_other(cls, m, self, other) ==
    LET ix == operand_indexes(cls, m, self, other)
    IN IF ix.exc # "" THEN ix
       ELSE IF ix.val.self <= ix.val.other
       THEN Return(PySlice(m.ordering, ix.val.self + 1, ix.val.other))
       ELSE Return(PySlice(m.ordering,
                           0 - Len(m.ordering) + ix.val.other,
                           0 - Len(m.ordering) + ix.val.self))

__sub__(cls, m, self, other) ==
    LET ix == operand_indexes(cls, m, self, other)
    IN IF ix.exc # "" THEN ix
       ELSE IF ix.val.self <= ix.val.other
       THEN Return(PySlice(m.ordering, ix.val.self + 1, ix.val.other))
       ELSE Return(PySlice(m.ordering,
                           0 - Len(m.ordering) + ix.val.other + 1,
                           0 - Len(m.ordering) + ix.val.self))

\* Variant: no guard on the index, so that -1 reads the last element.
pre_enum_member_unguarded(m, self) ==
    LET i == index_(m, self)
    IN IF i.exc # "" THEN i ELSE PyGetItem(m.ordering, i.val - 1)

pre_enum_member(m, self) ==
    LET i == index_(m, self)
    IN IF i.exc # "" THEN i
       ELSE IF i.val - 1 < 0 THEN Raise("IndexError")
       ELSE PyGetItem(m.ordering, i.val - 1)

next_enum_member(m, self) ==
    LET i == index_(m, self)
    IN IF i.exc # "" THEN i ELSE PyGetItem(m.ordering, i.val + 1)

pre_enum_members(m, self) ==
    LET i == index_(m, self)
    IN IF i.exc # "" THEN i ELSE Return(PySlice(m.ordering, 0, i.val))

\* Variant: the suffix starting at self.
next_enum_members_from_self(m, self) ==
    LET i == index_(m, self)
    IN IF i.exc # "" THEN i
       ELSE Return(PySlice(m.ordering, i.val, Len(m.ordering)))

next_enum_members(m, self) ==
    LET i == index_(m, self)
    IN IF i.exc # "" THEN i
       ELSE Return(PySlice(m.ordering, i.val + 1, Len(m.ordering)))

(***************************************************************************)
(* The declarations explored: a class, and its Meta block (if any) with    *)
(* the ordering list and the flows dict as written, in raw identifiers.    *)
(***************************************************************************)
OrderingIds(cls) ==
    IF cls = Status
    THEN {PyStr("PENDING"), PyStr("running"), PyStr("Done"), PyStr("expired"),
          PyStr("missing"), PyInt(123)}
    ELSE {PyStr("low"), PyStr("mid"), PyStr("HIGH"), PyStr("high"),
          PyStr("ten"), PyInt(10)}

FlowKeyIds(cls) ==
    IF cls = Status
    THEN {PyStr("PENDING"), PyStr("running"), PyStr("missing")}
    ELSE {PyStr("low"), PyStr("LOW"), PyStr("ten")}

FlowValueIds(cls) ==
    IF cls = Status
    THEN {PyStr("RUNNING"), PyStr("pending"), PyStr("expired"), PyStr("missing")}
    ELSE {PyStr("HIGH"), PyStr("high"), PyStr("mid")}

\* The Meta block of the test suite's Status, and one for Level.
TestOrdering(cls) ==
    IF cls = Status
    THEN <<PyStr("PENDING"), PyStr("RUNNING"), PyStr("DONE")>>
    ELSE <<PyStr("high"), PyStr("mid"), PyStr("low")>>

TestFlows(cls) ==
    IF cls = Status
    THEN << [key |-> PyStr("PENDING"), value |-> <<PyStr("RUNNING")>>],
            [key |-> PyStr("RUNNING"), value |-> <<PyStr("DONE"), PyStr("expired")>>] >>
    ELSE << [key |-> PyStr("low"), value |-> <<PyStr("HIGH")>>],
            [key |-> PyStr("LOW"), value |-> <<PyStr("low"), PyStr("mid")>>] >>

OrderingLists(cls) == SeqsUpTo(OrderingIds(cls), MaxOrderingLen)

FlowLists(cls) == SeqsUpTo(FlowValueIds(cls), MaxFlowLen)

MetaBlock(has_ordering, ordering, has_flows, flows) ==
    [present |-> TRUE, has_ordering |-> has_ordering, ordering |-> ordering,
     has_flows |-> has_flows, flows |-> flows]

NoMetaBlock ==
    [present |-> FALSE, has_ordering |-> FALSE, ordering |-> <<>>,
     has_flows |-> FALSE, flows |-> <<>>]

\* The class statements explored: no Meta block; a Meta block without
\* ordering; every ordering list with the flows of the test suite; every
\* flows dict (a dict literal has distinct keys) with the ordering of the
\* test suite.
Declared ==
    \E cls \in Classes :
        \/ decl = [cls |-> cls, Meta |-> NoMetaBlock]
        \/ decl = [cls |-> cls, Meta |-> MetaBlock(FALSE, <<>>, FALSE, <<>>)]
        \/ decl = [cls |-> cls, Meta |-> MetaBlock(FALSE, <<>>, TRUE, TestFlows(cls))]
        \/ \E o \in OrderingLists(cls) :
              decl = [cls |-> cls, Meta |-> MetaBlock(TRUE, o, TRUE, TestFlows(cls))]
        \/ \E k \in 0..MaxFlowEntries :
              \E keys \in [1..k -> FlowKeyIds(cls)], lists \in [1..k -> FlowLists(cls)] :
                  /\ \A i, j \in 1..k : i # j => keys[i] # keys[j]
                  /\ decl = [cls |-> cls,
                             Meta |-> MetaBlock(TRUE, TestOrdering(cls), TRUE,
                                                [i \in 1..k |-> [key |-> keys[i],
                                                                 value |-> lists[i]]])]

\* The arguments passed to the query methods: member objects and raw values.
RawInputs(cls) ==
    IF cls = Status
    THEN {PyStr("pending"), PyStr("PENDING"), PyStr("expired"), PyStr("missing"),
          PyInt(123)}
    ELSE {PyStr("low"), PyStr("LOW"), PyStr("ten"), PyStr("missing"), PyInt(10)}

Inputs(cls) == {PyMember(n) : n \in Names(cls)} \cup RawInputs(cls)

NoArg == [kind |-> "none", s |-> "", n |-> 0]

Idle == [op |-> "idle", self |-> "", other |-> NoArg, result |-> Return(<<>>)]

(***************************************************************************)
(* Init: the class statement has not run yet.                              *)
(***************************************************************************)
Init ==
    /\ Declared
    /\ status = "declared"
    /\ def_exc = ""
    /\ meta = NoneMeta
    /\ call = Idle

\* StageEnumMetaclass.__new__: the class statement runs.  An exception of
\* MetaOptions leaves the class name unbound.
Define ==
    /\ status = "declared"
    /\ IF ~decl.Meta.present
       THEN /\ meta' = NoneMeta
            /\ status' = "defined"
            /\ def_exc' = ""
       ELSE LET r == MetaOptions(decl.cls, decl.Meta)
            IN IF r.exc # ""
               THEN /\ status' = "failed"
                    /\ def_exc' = r.exc
                    /\ meta' = meta
               ELSE /\ status' = "defined"
                    /\ def_exc' = ""
                    /\ meta' = r.val
    /\ UNCHANGED <<decl, call>>

\* A caller may call a method of the defined class once the previous call
\* has returned.
CanCall == status = "defined" /\ call.op = "idle"

Called(op, self, other, result) ==
    /\ call' = [op |-> op, self |-> self, other |-> other, result |-> result]
    /\ UNCHANGED <<decl, status, def_exc, meta>>

Member ==
    /\ CanCall
    /\ \E value \in Inputs(decl.cls) :
         Called("_member__", "", value, _member__(decl.cls, value))

Follows ==
    /\ CanCall
    /\ \E self \in Names(decl.cls), other \in Inputs(decl.cls) :
         Called("follows", self, other, follows(decl.cls, meta, self, other))

Precedes ==
    /\ CanCall
    /\ \E self \in Names(decl.cls), other \in Inputs(decl.cls) :
         Called("precedes", self, other, precedes(decl.cls, meta, self, other))

Index ==
    /\ CanCall
    /\ \E self \in Names(decl.cls) :
         Called("index_", self, NoArg, index_(meta, self))

IsComparable ==
    /\ CanCall
    /\ \E member \in Inputs(decl.cls) :
         Called("is_comparable", "", member, is_comparable(decl.cls, meta, member))

Le ==
    /\ CanCall
    /\ \E self \in Names(decl.cls), other \in Inputs(decl.cls) :
         Called("__le__", self, other, __le__(decl.cls, meta, self, other))

Lt ==
    /\ CanCall
    /\ \E self \in Names(decl.cls), other \in Inputs(decl.cls) :
         Called("__lt__", self, other, __lt__(decl.cls, meta, self, other))

Ge ==
    /\ CanCall
    /\ \E self \in Names(decl.cls), other \in Inputs(decl.cls) :
         Called("__ge__", self, other, __ge__(decl.cls, meta, self, other))

Gt ==
    /\ CanCall
    /\ \E self \in Names(decl.cls), other \in Inputs(decl.cls) :
         Called("__gt__", self, other, __gt__(decl.cls, meta, self, other))

Sub ==
    /\ CanCall
    /\ \E self \in Names(decl.cls), other \in Inputs(decl.cls) :
         Called("__sub__", self, other, __sub__(decl.cls, meta, self, other))

PreEnumMember ==
    /\ CanCall
    /\ \E self \in Names(decl.cls) :
         Called("pre_enum_member", self, NoArg, pre_enum_member(meta, self))

NextEnumMember ==
    /\ CanCall
    /\ \E self \in Names(decl.cls) :
         Called("next_enum_member", self, NoArg, next_enum_member(meta, self))

\* Variant: the prefix cut out of the resolved list in place.
PreEnumMembersInPlace ==
    /\ CanCall
    /\ \E self \in Names(decl.cls) :
         LET r == pre_enum_members(meta, self)
         IN /\ call' = [op |-> "pre_enum_members", self |-> self,
                        other |-> NoArg, result |-> r]
            /\ meta' = IF r.exc = "" THEN [meta EXCEPT !.ordering = r.val] ELSE meta
    /\ UNCHANGED <<decl, status, def_exc>>

PreEnumMembers ==
    /\ CanCall
    /\ \E self \in Names(decl.cls) :
         Called("pre_enum_members", self, NoArg, pre_enum_members(meta, self))

NextEnumMembers ==
    /\ CanCall
    /\ \E self \in Names(decl.cls) :
         Called("next_enum_members", self, NoArg, next_enum_members(meta, self))

\* The call has returned or raised; the caller goes on.
CallerContinues ==
    /\ call.op # "idle"
    /\ call' = Idle
    /\ UNCHANGED <<decl, status, def_exc, meta>>

Next ==
    \/ Define
    \/ Member
    \/ Follows
    \/ Precedes
    \/ Index
    \/ IsComparable
    \/ Le
    \/ Lt
    \/ Ge
    \/ Gt
    \/ Sub
    \/ PreEnumMember
    \/ NextEnumMember
    \/ PreEnumMembers
    \/ NextEnumMembers
    \/ CallerContinues

Spec == Init /\ [][Next]_vars

(***************************************************************************)
(* Vocabulary of the properties: the resolved Ordering and TransitionGraph *)
(* of a class whose Meta block was resolved.                               *)
(***************************************************************************)
Resolved == status = "defined" /\ ~meta.none

Ordering == meta.ordering

InOrdering(x) == \E i \in DOMAIN Ordering : Ordering[i] = x

\* The zero-based position at which x first stands in the Ordering.
Ordinal(x) ==
    (CHOOSE i \in DOMAIN Ordering :
        Ordering[i] = x /\ \A j \in 1..(i - 1) : Ordering[j] # x) - 1

\* The members of TransitionGraph[b]; none when b has no entry.
Successors(b) ==
    IF b \in DOMAIN meta.flows
    THEN {meta.flows[b][i] : i \in DOMAIN meta.flows[b]}
    ELSE {}

Returned(v) == call.result.exc = "" /\ call.result.val = v

OnMembers == call.other.kind = "member"

\* The position of a member in the class body.
DeclPos(cls, name) == CHOOSE i \in DOMAIN cls : cls[i].name = name

(***************************************************************************)
(* C1: for members a and b, in the Ordering or not, a.follows(b) returns   *)
(* true exactly when a is in TransitionGraph[b], which is exactly when     *)
(* b.precedes(a) returns true; a member without an entry has no            *)
(* successors and the predicates return false, they do not raise.          *)
(***************************************************************************)
C1_FollowsPrecedesSameEdge ==
    /\ (Resolved /\ call.op = "follows" /\ OnMembers) =>
          /\ Returned(call.self \in Successors(call.other.s))
          /\ precedes(decl.cls, meta, call.other.s, PyMember(call.self))
                = Return(call.self \in Successors(call.other.s))
    /\ (Resolved /\ call.op = "precedes" /\ OnMembers) =>
          /\ Returned(call.other.s \in Successors(call.self))
          /\ follows(decl.cls, meta, call.other.s, PyMember(call.self))
                = Return(call.other.s \in Successors(call.self))

\* a.follows(b) is true for an a that is not in the Ordering.
C1_Witness ==
    /\ Resolved /\ call.op = "follows" /\ OnMembers
    /\ Returned(TRUE)
    /\ ~InOrdering(call.self)

(***************************************************************************)
(* C2: for members a and b both in the Ordering, a < b, a <= b, a > b and  *)
(* a >= b return the same comparison of ordinal(a) and ordinal(b), the     *)
(* positions in the declared Ordering, whatever the declaration order and  *)
(* the raw values of the members.                                          *)
(***************************************************************************)
C2_ComparisonByOrdinal ==
    (Resolved /\ OnMembers /\ InOrdering(call.self) /\ InOrdering(call.other.s)) =>
        LET a == Ordinal(call.self)
            b == Ordinal(call.other.s)
        IN /\ call.op = "__lt__" => Returned(a < b)
           /\ call.op = "__le__" => Returned(a <= b)
           /\ call.op = "__gt__" => Returned(a > b)
           /\ call.op = "__ge__" => Returned(a >= b)

\* a < b holds for an a declared after b in the class body.
C2_Witness ==
    /\ Resolved /\ call.op = "__lt__" /\ OnMembers
    /\ Returned(TRUE)
    /\ DeclPos(decl.cls, call.self) > DeclPos(decl.cls, call.other.s)

\* The members at the zero-based positions strictly between lo and hi.
StrictlyBetween(lo, hi) == [i \in 1..(hi - lo - 1) |-> Ordering[lo + 1 + i]]

(***************************************************************************)
(* C3: for members a and b both in the Ordering, a - b returns the members *)
(* at the positions strictly between the two ordinals, in Ordering order;  *)
(* the negative-index slice taken when ordinal(a) > ordinal(b) is          *)
(* Ordering[ordinal(b)+1 : ordinal(a)], so a - b = b - a, and the result   *)
(* is empty when the ordinals are adjacent or equal.                       *)
(***************************************************************************)
C3_BetweenIsSymmetricGap ==
    (Resolved /\ call.op = "__sub__" /\ OnMembers
       /\ InOrdering(call.self) /\ InOrdering(call.other.s)) =>
        LET a == Ordinal(call.self)
            b == Ordinal(call.other.s)
            lo == IF a <= b THEN a ELSE b
            hi == IF a <= b THEN b ELSE a
        IN /\ Returned(StrictlyBetween(lo, hi))
           /\ __sub__(decl.cls, meta, call.other.s, PyMember(call.self)) = call.result
           /\ hi - lo <= 1 => Returned(<<>>)

\* The negative-index branch returned a non-empty gap.
C3_Witness ==
    /\ Resolved /\ call.op = "__sub__" /\ OnMembers
    /\ InOrdering(call.self) /\ InOrdering(call.other.s)
    /\ Ordinal(call.self) > Ordinal(call.other.s)
    /\ call.result.exc = "" /\ Len(call.result.val) > 0

(***************************************************************************)
(* The coercion the specification describes: a member is itself; a string  *)
(* is matched against the member names without regard to case, and only   *)
(* then against the raw values; anything else is matched against the raw   *)
(* values; NoSuchMember when nothing matches.                              *)
(***************************************************************************)
NameMatches(cls, raw) ==
    {n \in Names(cls) : raw.kind = "str" /\ Upper(n) = Upper(raw.s)}

ValueMatches(cls, raw) ==
    {cls[i].name : i \in {j \in DOMAIN cls : cls[j].value = raw}}

SpecCoerce(cls, raw) ==
    IF raw.kind = "member" THEN Return(raw.s)
    ELSE IF NameMatches(cls, raw) # {}
    THEN Return(CHOOSE n \in NameMatches(cls, raw) : TRUE)
    ELSE IF ValueMatches(cls, raw) # {}
    THEN Return(CHOOSE n \in ValueMatches(cls, raw) : TRUE)
    ELSE Raise("NoSuchMember")

\* What the code does with the argument of a query: a member is itself,
\* anything else is matched against the raw values alone.
ByValueOnly(cls, raw) ==
    IF raw.kind = "member" THEN {raw.s} ELSE ValueMatches(cls, raw)

\* What the code does with an identifier of a declaration: a string whose
\* upper-cased form is a member name is that member, and only otherwise is
\* the string matched against the raw values; a non-string is rejected.
UpperNameThenValue(cls, raw) ==
    IF raw.kind # "str" THEN {}
    ELSE IF Upper(raw.s) \in Names(cls) THEN {Upper(raw.s)}
    ELSE ValueMatches(cls, raw)

(***************************************************************************)
(* C4: is_comparable(x) never raises and returns true exactly when         *)
(* coerce(x), the name-first coercion of the specification, succeeds with  *)
(* a member that is in the Ordering, for x a member, a symbolic name, a    *)
(* raw value or anything else.                                             *)
(***************************************************************************)
C4_ComparableIffCoercesIntoOrdering ==
    (Resolved /\ call.op = "is_comparable") =>
        LET c == SpecCoerce(decl.cls, call.other)
        IN Returned(c.exc = "" /\ InOrdering(c.val))

\* The code's is_comparable: total on a resolved class, and true exactly
\* when the by-value coercion of the argument gives a member of the Ordering.
IsComparableByValue ==
    (Resolved /\ call.op = "is_comparable") =>
        Returned(\E x \in ByValueOnly(decl.cls, call.other) : InOrdering(x))

\* Every raw identifier written in the Meta block.
DeclaredIds ==
    {decl.Meta.ordering[i] : i \in DOMAIN decl.Meta.ordering}
    \cup {decl.Meta.flows[i].key : i \in DOMAIN decl.Meta.flows}
    \cup UNION {{decl.Meta.flows[i].value[j] : j \in DOMAIN decl.Meta.flows[i].value} :
                  i \in DOMAIN decl.Meta.flows}

(***************************************************************************)
(* C5: coerce(raw), in resolving a declaration and on the argument of a    *)
(* query alike, returns a member unchanged, else matches a symbolic name   *)
(* case-insensitively against the member names, else matches the raw       *)
(* values, and signals NoSuchMember only when both lookups fail.           *)
(***************************************************************************)
C5_CoerceNameFirstThenValue ==
    /\ (status = "defined" /\ call.op = "_member__") =>
          LET c == SpecCoerce(decl.cls, call.other)
          IN IF c.exc = "" THEN call.result = c ELSE call.result.exc # ""
    /\ (status # "declared" /\ decl.Meta.present) =>
          /\ status = "failed" <=>
                \E id \in DeclaredIds : SpecCoerce(decl.cls, id).exc # ""
          /\ status = "defined" =>
                \A i \in DOMAIN decl.Meta.ordering :
                    Return(Ordering[i]) = SpecCoerce(decl.cls, decl.Meta.ordering[i])

\* The code's two coercions: the argument of a query is matched by value
\* alone; an identifier of a declaration must be a string, matched by
\* upper-cased name first and by value second.
CoercionAsCoded ==
    /\ (status = "defined" /\ call.op = "_member__") =>
          IF ByValueOnly(decl.cls, call.other) # {}
          THEN /\ call.result.exc = ""
               /\ call.result.val \in ByValueOnly(decl.cls, call.other)
          ELSE call.result.exc = "ValueError"
    /\ (status # "declared" /\ decl.Meta.present) =>
          /\ status = "failed" <=>
                \E id \in DeclaredIds : UpperNameThenValue(decl.cls, id) = {}
          /\ status = "defined" =>
                /\ Len(Ordering) = Len(decl.Meta.ordering)
                /\ \A i \in DOMAIN decl.Meta.ordering :
                      Ordering[i] \in UpperNameThenValue(decl.cls, decl.Meta.ordering[i])
                /\ DOMAIN meta.flows =
                      UNION {UpperNameThenValue(decl.cls, decl.Meta.flows[i].key) :
                               i \in DOMAIN decl.Meta.flows}

(***************************************************************************)
(* C6: for a member x of the Ordering, previous(x) is the member at        *)
(* ordinal(x) - 1 and next(x) the member at ordinal(x) + 1; previous fails *)
(* with a boundary error at the first ordinal and next at the last one;    *)
(* neither wraps around to the other end.                                  *)
(***************************************************************************)
C6_NeighboursOrBoundaryError ==
    (Resolved /\ InOrdering(call.self)) =>
        LET i == Ordinal(call.self)
        IN /\ call.op = "pre_enum_member" =>
                IF i = 0
                THEN call.result.exc = "IndexError"
                ELSE Returned(Ordering[i])
           /\ call.op = "next_enum_member" =>
                IF i = Len(Ordering) - 1
                THEN call.result.exc = "IndexError"
                ELSE Returned(Ordering[i + 2])

\* previous() of the first of several members raised the boundary error.
C6_Witness ==
    /\ Resolved /\ call.op = "pre_enum_member"
    /\ InOrdering(call.self) /\ Ordinal(call.self) = 0
    /\ Len(Ordering) > 1
    /\ call.result.exc = "IndexError"

\* index_ of the member at each position is that position.
OrdinalIsPosition ==
    \A i \in DOMAIN Ordering : index_(meta, Ordering[i]) = Return(i - 1)

\* previous(next(x)) = x for the x whose next() was just taken.
PreviousUndoesNext ==
    (call.op = "next_enum_member" /\ InOrdering(call.self)
       /\ Ordinal(call.self) # Len(Ordering) - 1) =>
        /\ call.result.exc = ""
        /\ pre_enum_member(meta, call.result.val) = Return(call.self)

(***************************************************************************)
(* C7 as stated: for every Ordering that resolution can produce, the       *)
(* member at position i has ordinal i, so that ordinal is one-to-one onto  *)
(* 0..N-1, and previous(next(x)) = x for every x that is not the last.     *)
(***************************************************************************)
C7_Original_OrdinalBijection ==
    Resolved => (OrdinalIsPosition /\ PreviousUndoesNext)

\* The Ordering holds no member twice.
NoRepeatedMember ==
    \A i, j \in DOMAIN Ordering : Ordering[i] = Ordering[j] => i = j

(***************************************************************************)
(* C7 amended: for every Ordering without a repeated member, the member    *)
(* at position i has ordinal i, so that ordinal is one-to-one onto 0..N-1, *)
(* and previous(next(x)) = x for every x that is not the last.             *)
(***************************************************************************)
C7_OrdinalBijectionWithoutRepeats ==
    (Resolved /\ NoRepeatedMember) => (OrdinalIsPosition /\ PreviousUndoesNext)

\* next() of a member of a three-member Ordering without repeats returned.
C7_Witness ==
    /\ Resolved /\ NoRepeatedMember /\ Len(Ordering) = 3
    /\ call.op = "next_enum_member" /\ InOrdering(call.self)
    /\ call.result.exc = ""

(***************************************************************************)
(* C8: the ordinal of a member that is not in the Ordering, and each of    *)
(* <, <=, >, >= with an operand that is a member not in the Ordering, end  *)
(* in an error; no integer, sentinel or boolean is returned.               *)
(***************************************************************************)
C8_AbsentMemberRaises ==
    /\ (Resolved /\ call.op = "index_" /\ ~InOrdering(call.self)) =>
          call.result.exc = "ValueError"
    /\ (Resolved /\ call.op \in {"__lt__", "__le__", "__gt__", "__ge__"} /\ OnMembers
          /\ (~InOrdering(call.self) \/ ~InOrdering(call.other.s))) =>
          call.result.exc = "ValueError"

\* A member of the Ordering was compared with a member outside it.
C8_Witness ==
    /\ Resolved /\ call.op = "__ge__" /\ OnMembers
    /\ InOrdering(call.self) /\ ~InOrdering(call.other.s)
    /\ call.result.exc = "ValueError"

(***************************************************************************)
(* C9: for a member x of the Ordering, all_previous(x) is the prefix of    *)
(* the Ordering before ordinal(x) and all_next(x) the suffix after it, in  *)
(* Ordering order; all_previous is empty at the first ordinal, all_next is *)
(* empty at the last one, and neither raises.                              *)
(***************************************************************************)
C9_PrefixAndSuffix ==
    (Resolved /\ InOrdering(call.self)) =>
        LET i == Ordinal(call.self)
            N == Len(Ordering)
        IN /\ call.op = "pre_enum_members" =>
                /\ Returned([k \in 1..i |-> Ordering[k]])
                /\ i = 0 => Returned(<<>>)
           /\ call.op = "next_enum_members" =>
                /\ Returned([k \in 1..(N - i - 1) |-> Ordering[i + 1 + k]])
                /\ i = N - 1 => Returned(<<>>)

\* all_next() of the last of several members returned the empty sequence.
C9_Witness ==
    /\ Resolved /\ call.op = "next_enum_members"
    /\ InOrdering(call.self) /\ Ordinal(call.self) = Len(Ordering) - 1
    /\ Len(Ordering) > 1
    /\ Returned(<<>>)

(***************************************************************************)
(* C10: once the class is defined, no query, whether it returns or raises, *)
(* changes the resolved Ordering or TransitionGraph (nor the class), so    *)
(* every ordinal is the same before and after.                             *)
(***************************************************************************)
C10_QueriesLeaveMetaUnchanged ==
    [][status = "defined" =>
         /\ meta' = meta
         /\ decl' = decl
         /\ status' = status]_vars

\* A query of a resolved class ended in an error.
C10_Witness ==
    /\ Resolved /\ Len(Ordering) > 1
    /\ call.op = "next_enum_member"
    /\ call.result.exc = "IndexError"

(***************************************************************************)
(* C11: when an identifier of the ordering list, or a key or a value of    *)
(* the flows dict, matches no member name (whatever its case) and no       *)
(* member raw value, the class statement ends in an error and the class is *)
(* never usable: nothing of the resolution is attached to it and no query  *)
(* is ever answered from a partly resolved Ordering or TransitionGraph.    *)
(***************************************************************************)
C11_UnresolvableIdentifierAbortsDefinition ==
    (status # "declared" /\ decl.Meta.present
       /\ \E id \in DeclaredIds : SpecCoerce(decl.cls, id).exc # "") =>
        /\ status = "failed"
        /\ def_exc # ""
        /\ meta = NoneMeta
        /\ call = Idle

\* The ordering list resolved to three members, a flows identifier matched
\* nothing, and the class statement raised.
C11_Witness ==
    /\ status = "failed"
    /\ def_exc = "ValueError"
    /\ set_ordering(decl.cls, decl.Meta).exc = ""
    /\ Len(set_ordering(decl.cls, decl.Meta).val) = 3
    /\ \E i \in DOMAIN decl.Meta.flows :
          \E j \in DOMAIN decl.Meta.flows[i].value :
              SpecCoerce(decl.cls, decl.Meta.flows[i].value[j]).exc # ""

(***************************************************************************)
(* C12: for a class that declares no ordering, whether its Meta block has  *)
(* no ordering entry or it has no Meta block at all, the resolved Ordering *)
(* is empty and is_comparable returns false for every member and every     *)
(* raw value.                                                              *)
(***************************************************************************)
C12_NoOrderingNothingComparable ==
    (status = "defined" /\ (~decl.Meta.present \/ ~decl.Meta.has_ordering)) =>
        /\ Ordering = <<>>
        /\ call.op = "is_comparable" => Returned(FALSE)

\* The code with a Meta block that has no ordering entry: the Ordering is
\* empty and is_comparable returns false.
MetaBlockWithoutOrdering ==
    (status = "defined" /\ decl.Meta.present /\ ~decl.Meta.has_ordering) =>
        /\ ~meta.none
        /\ Ordering = <<>>
        /\ call.op = "is_comparable" => Returned(FALSE)

\* The code without a Meta block: meta is None, and is_comparable raises
\* AttributeError for a member or a raw value of a member, and returns
\* false for anything else.
WithoutMetaBlock ==
    (status = "defined" /\ ~decl.Meta.present) =>
        /\ meta.none
        /\ call.op = "is_comparable" =>
              IF ByValueOnly(decl.cls, call.other) # {}
              THEN call.result.exc = "AttributeError"
              ELSE Returned(FALSE)

====
